---------------------------- MODULE Spec2Model ----------------------------
(***************************************************************************)
(* NBA dashboard (src/app.py): the loaded table df, the Dash components    *)
(* whose properties the callbacks read and write, and the three callbacks  *)
(* update_dashboard, store_clicked_player and show_player_details.         *)
(*                                                                         *)
(* Conventions of the model                                                *)
(*  - bbrID and Tm are strings in the program; here they are the positive  *)
(*    integers 1, 2, ... standing for the strings in lexicographic order   *)
(*    (pandas' groupby sorts its keys, so only the order matters).         *)
(*  - Python's None for a dropdown value is the record field none = TRUE;  *)
(*    for the selected-player store it is NoPlayer.                        *)
(*  - A mean is the exact fraction sum/count in lowest terms, [num, den].  *)
(*  - Playoffs is "True", "False" or, before the load-time fillna, "NaN".  *)
(***************************************************************************)
EXTENDS Integers, Sequences, FiniteSets, TLC

VARIABLES
    df,                  \* the global table (line 7-8), a sequence of records
    team_filter,         \* value of dcc.Dropdown 'team-filter'
    year_filter,         \* value of dcc.Dropdown 'year-filter'
    game_type_filter,    \* value of dcc.Dropdown 'game-type-filter'
    tabs,                \* value of dcc.Tabs 'tabs'
    n_clicks,            \* n_clicks of html.Button 'apply-btn'
    tabs_content,        \* children of html.Div 'tabs-content'
    clickData,           \* clickData of dcc.Graph 'top-players-graph'
    selected_player_id,  \* data of dcc.Store 'selected-player-id'
    player_details,      \* children of html.Div 'player-details'
    pending,             \* callbacks Dash has triggered and not yet run
    ud_filtered,         \* local filtered_df of the last update_dashboard run
    ud_raised,           \* whether the last update_dashboard run raised
    spd_filtered         \* local filtered_df of the last show_player_details run

vars == <<df, team_filter, year_filter, game_type_filter, tabs, n_clicks,
          tabs_content, clickData, selected_player_id, player_details,
          pending, ud_filtered, ud_raised, spd_filtered>>

ui_state == <<team_filter, year_filter, game_type_filter, tabs, n_clicks>>

(***************************************************************************)
(* Bounds of the model                                                     *)
(***************************************************************************)
\* longest table drawn from RawRows
MaxRows == 2
\* number of players (one record each) in the large table LeagueRaw
NumPlayers == 11
\* presses of the Apply button
MaxClicks == 1

(***************************************************************************)
(* Program constants                                                       *)
(***************************************************************************)
\* .head(10)
TopN == 10

NoPlayer == 0

(***************************************************************************)
(* Input tables                                                            *)
(***************************************************************************)
Rec(id, tm, yr, pts, ast, trb, gs, po) ==
    [bbrID |-> id, Tm |-> tm, Year |-> yr, PTS |-> pts, AST |-> ast,
     TRB |-> trb, GmSc |-> gs, Playoffs |-> po]

\* Player 2 appears twice, its earlier row carrying the larger Year; players 1
\* and 2 can tie on GmSc, players 2 (mean of both rows) and 3 too; teams 1 and
\* 2 can tie on PTS.
RawRows ==
    { Rec(2, 1, 2021, 20, 5, 3, 18, "NaN"),
      Rec(1, 2, 2020, 30, 2, 4, 18, "True"),
      Rec(2, 1, 2020, 10, 1, 1, 6, "False"),
      Rec(3, 2, 2021, 20, 4, 2, 12, "False") }

RECURSIVE SeqsUpTo(_, _)
SeqsUpTo(S, n) ==
    IF n = 0 THEN {<<>>}
    ELSE LET shorter == SeqsUpTo(S, n - 1)
         IN  shorter \cup {Append(s, r) : s \in {t \in shorter : Len(t) = n - 1}, r \in S}

\* Players NumPlayers, ..., 1 in this (descending) order, so that the order of
\* first appearance is the reverse of the key order. The two players with the
\* smallest keys tie on GmSc, and so do the two with the largest keys.
LeagueRaw ==
    [i \in 1..NumPlayers |->
        LET k == NumPlayers + 1 - i
        IN  Rec(k, 1 + (k % 2), 2020 + (k % 3) \div 2, 10 + k, k % 4, k % 5,
                IF k <= 2 THEN 1 ELSE IF k >= NumPlayers - 1 THEN NumPlayers ELSE k,
                IF k % 3 = 0 THEN "True" ELSE IF k % 3 = 1 THEN "False" ELSE "NaN")]

RawTables == SeqsUpTo(RawRows, MaxRows) \cup {LeagueRaw}

UIRawTables ==
    { << Rec(1, 2, 2020, 30, 2, 4, 18, "True"),
         Rec(2, 1, 2021, 20, 5, 3, 18, "NaN"),
         Rec(2, 1, 2020, 10, 1, 1, 6, "False") >> }

Sel(isNone, list) == [none |-> isNone, list |-> list]
TeamSelections == {Sel(TRUE, <<>>), Sel(FALSE, <<>>), Sel(FALSE, <<1>>)}
YearSelections == {Sel(TRUE, <<>>), Sel(FALSE, <<>>), Sel(FALSE, <<2020>>)}
\* the selections drawn for the pipeline also hold two values
PipelineTeamSelections == TeamSelections \cup {Sel(FALSE, <<2, 1>>)}
PipelineYearSelections == YearSelections \cup {Sel(FALSE, <<2021, 2020>>)}
GameTypes == {"all", "regular", "playoffs"}
TabValues == {"tab1", "tab2", "tab3", "tab4"}

(***************************************************************************)
(* Load                                                                    *)
(***************************************************************************)
\* df['Playoffs'] = df['Playoffs'].fillna(False)
fillna(raw) ==
    [i \in 1..Len(raw) |->
        [raw[i] EXCEPT !.Playoffs = IF @ = "NaN" THEN "False" ELSE @]]

(***************************************************************************)
(* Filtering                                                               *)
(***************************************************************************)
\* variant: only None counts as no selection, an empty list selects nothing
Truthy_only_None(sel) == ~sel.none

\* Python truthiness of a multi-dropdown value: None and [] are falsy
Truthy(sel) == ~sel.none /\ Len(sel.list) > 0

\* Series.isin(values)
isin(v, list) == \E i \in 1..Len(list) : list[i] = v

by_team(d, selected_teams) ==
    IF Truthy(selected_teams)
    THEN SelectSeq(d, LAMBDA r : isin(r.Tm, selected_teams.list))
    ELSE d

by_year(d, selected_years) ==
    IF Truthy(selected_years)
    THEN SelectSeq(d, LAMBDA r : isin(r.Year, selected_years.list))
    ELSE d

by_game_type(d, game_type) ==
    IF game_type = "regular" THEN SelectSeq(d, LAMBDA r : r.Playoffs = "False")
    ELSE IF game_type = "playoffs" THEN SelectSeq(d, LAMBDA r : r.Playoffs = "True")
    ELSE d

\* variant: the year filter is taken from df instead of filtered_df, which
\* loses the team filter
ud_filter_year_from_df(d, selected_teams, selected_years, game_type) ==
    by_game_type(by_year(d, selected_years), game_type)

\* lines 95-103 of update_dashboard
ud_filter(d, selected_teams, selected_years, game_type) ==
    by_game_type(by_year(by_team(d, selected_teams), selected_years), game_type)

\* variant: the two game-type branches exchanged
spd_filter_game_type_swapped(d, selected_teams, selected_years, game_type) ==
    LET f2 == by_year(by_team(d, selected_teams), selected_years)
    IN  IF game_type = "regular" THEN SelectSeq(f2, LAMBDA r : r.Playoffs = "True")
        ELSE IF game_type = "playoffs" THEN SelectSeq(f2, LAMBDA r : r.Playoffs = "False")
        ELSE f2

\* lines 182-190 of show_player_details
spd_filter(d, selected_teams, selected_years, game_type) ==
    LET f1 == IF Truthy(selected_teams)
              THEN SelectSeq(d, LAMBDA r : isin(r.Tm, selected_teams.list))
              ELSE d
        f2 == IF Truthy(selected_years)
              THEN SelectSeq(f1, LAMBDA r : isin(r.Year, selected_years.list))
              ELSE f1
    IN  IF game_type = "regular" THEN SelectSeq(f2, LAMBDA r : r.Playoffs = "False")
        ELSE IF game_type = "playoffs" THEN SelectSeq(f2, LAMBDA r : r.Playoffs = "True")
        ELSE f2

(***************************************************************************)
(* Aggregation                                                             *)
(***************************************************************************)
RECURSIVE GCD(_, _)
GCD(a, b) == IF b = 0 THEN a ELSE GCD(b, a % b)

Abs(n) == IF n < 0 THEN -n ELSE n

\* sum / count as a fraction in lowest terms
Mean(sum, count) ==
    LET g == GCD(Abs(sum), count)
    IN  [num |-> sum \div g, den |-> count \div g]

\* m1 >= m2, m1 = m2 for fractions with positive denominators
Ge(m1, m2) == m1.num * m2.den >= m2.num * m1.den

RECURSIVE SumCol(_, _)
SumCol(rows, col) ==
    IF rows = <<>> THEN 0 ELSE Head(rows)[col] + SumCol(Tail(rows), col)

RECURSIVE Ascending(_)
Ascending(S) ==
    IF S = {} THEN <<>>
    ELSE LET m == CHOOSE x \in S : \A y \in S : x <= y
         IN  <<m>> \o Ascending(S \ {m})

\* d.groupby(col)[["PTS", "AST", "TRB", "GmSc"]].mean(): one row per key, the
\* keys in ascending order (groupby's sort=True)
groupby_mean(d, col) ==
    LET keys == Ascending({d[i][col] : i \in 1..Len(d)})
    IN  [j \in 1..Len(keys) |->
            LET g == SelectSeq(d, LAMBDA r : r[col] = keys[j])
            IN  [key  |-> keys[j],
                 PTS  |-> Mean(SumCol(g, "PTS"), Len(g)),
                 AST  |-> Mean(SumCol(g, "AST"), Len(g)),
                 TRB  |-> Mean(SumCol(g, "TRB"), Len(g)),
                 GmSc |-> Mean(SumCol(g, "GmSc"), Len(g))]]

\* rows.sort_values(by=col, ascending=False) with the default kind="quicksort",
\* which is not stable: every arrangement of the rows that is non-increasing
\* in col is a possible result.
RECURSIVE Arrangements(_, _, _)
Arrangements(rows, col, S) ==
    IF S = {} THEN {<<>>}
    ELSE LET top == {i \in S : \A j \in S : Ge(rows[i][col], rows[j][col])}
         IN  UNION { {<<rows[i]>> \o t : t \in Arrangements(rows, col, S \ {i})}
                     : i \in top }

sort_values_desc(rows, col) == Arrangements(rows, col, 1..Len(rows))

\* .head(n)
head(rows, n) == SubSeq(rows, 1, IF Len(rows) < n THEN Len(rows) ELSE n)

\* variant: .head(10) taken before .sort_values
top_players_head_first(filtered_df) ==
    sort_values_desc(head(groupby_mean(filtered_df, "bbrID"), TopN), "GmSc")

\* lines 106-112: the possible values of top_players
top_players(filtered_df) ==
    {head(s, TopN) : s \in sort_values_desc(groupby_mean(filtered_df, "bbrID"), "GmSc")}

\* variant: sorted by GmSc, as the player view is
team_stats_by_GmSc(filtered_df) ==
    sort_values_desc(groupby_mean(filtered_df, "Tm"), "GmSc")

\* lines 146-151: the possible values of team_stats
team_stats(filtered_df) ==
    sort_values_desc(groupby_mean(filtered_df, "Tm"), "PTS")

\* line 126: the histogram's x values
game_scores(filtered_df) ==
    [i \in 1..Len(filtered_df) |-> [GmSc |-> filtered_df[i].GmSc]]


(***************************************************************************)
(* Rendered values                                                         *)
(***************************************************************************)
\* children of 'tabs-content' before the first callback has answered
NotRendered == [tab |-> "none", rows |-> <<>>]

\* clickData=None; a click is {'points': [{'x': <bbrID>}]}
NoClick == [points |-> <<>>]
Click(k) == [points |-> <<[x |-> k]>>]

Details(kind, id, entry) == [kind |-> kind, player_id |-> id, entry |-> entry]
\* children of 'player-details' before the first callback has answered
Unset == Details("unset", NoPlayer, <<>>)
\* return ""
Blank == Details("blank", NoPlayer, <<>>)
\* return "No data found for selected player."
NotFound(id) == Details("notfound", id, <<>>)

\* lines 197-205: the html.Div built from latest_entry
Div(id, latest_entry) ==
    Details("div", id,
            <<[Tm |-> latest_entry.Tm, Year |-> latest_entry.Year,
               PTS |-> latest_entry.PTS, AST |-> latest_entry.AST,
               TRB |-> latest_entry.TRB, GmSc |-> latest_entry.GmSc]>>)

\* variant: aggregating an empty filtered_df raises
render_empty_raises(tab, filtered_df) ==
    IF tab = "tab3" \/ (filtered_df = <<>> /\ tab \in {"tab1", "tab4"}) THEN
        {[raised |-> TRUE, children |-> NotRendered]}
    ELSE IF tab = "tab1" THEN
        {[raised |-> FALSE, children |-> [tab |-> "tab1", rows |-> s]]
            : s \in top_players(filtered_df)}
    ELSE IF tab = "tab2" THEN
        {[raised |-> FALSE,
          children |-> [tab |-> "tab2", rows |-> game_scores(filtered_df)]]}
    ELSE
        {[raised |-> FALSE, children |-> [tab |-> "tab4", rows |-> s]]
            : s \in team_stats(filtered_df)}

\* lines 105-158: what update_dashboard returns, or that it raises. For tab3
\* px.scatter is called with hovertemplate=..., which is no parameter of
\* plotly.express.scatter: the call raises TypeError.
render(tab, filtered_df) ==
    IF tab = "tab1" THEN
        {[raised |-> FALSE, children |-> [tab |-> "tab1", rows |-> s]]
            : s \in top_players(filtered_df)}
    ELSE IF tab = "tab2" THEN
        {[raised |-> FALSE,
          children |-> [tab |-> "tab2", rows |-> game_scores(filtered_df)]]}
    ELSE IF tab = "tab3" THEN
        {[raised |-> TRUE, children |-> NotRendered]}
    ELSE
        {[raised |-> FALSE, children |-> [tab |-> "tab4", rows |-> s]]
            : s \in team_stats(filtered_df)}

\* variant: iloc[0] for iloc[-1]
lookup_first(filtered_df, player_id) ==
    LET player_data == SelectSeq(filtered_df, LAMBDA r : r.bbrID = player_id)
    IN  IF player_data = <<>> THEN NotFound(player_id)
        ELSE Div(player_id, player_data[1])

\* lines 192-205: player_data, the empty test and iloc[-1]
lookup(filtered_df, player_id) ==
    LET player_data == SelectSeq(filtered_df, LAMBDA r : r.bbrID = player_id)
    IN  IF player_data = <<>> THEN NotFound(player_id)
        ELSE Div(player_id, player_data[Len(player_data)])

(***************************************************************************)
(* Callbacks. Dash runs a callback when one of its Input properties is     *)
(* written or its Input component is added to the layout; State            *)
(* properties are only read.                                               *)
(***************************************************************************)
\* variant: the filter is applied to df itself, without df.copy()
update_dashboard_in_place ==
    /\ pending # <<>> /\ Head(pending) = "update_dashboard"
    /\ LET filtered_df == ud_filter(df, team_filter, year_filter, game_type_filter)
       IN  /\ ud_filtered' = filtered_df
           /\ df' = filtered_df
           /\ \E out \in render(tabs, filtered_df) :
                /\ ud_raised' = out.raised
                /\ tabs_content' = IF out.raised THEN tabs_content ELSE out.children
                /\ clickData' = IF out.raised THEN clickData ELSE NoClick
                /\ pending' = IF ~out.raised /\ out.children.tab = "tab1"
                              THEN Append(Tail(pending), "store_clicked_player")
                              ELSE Tail(pending)
    /\ UNCHANGED <<ui_state, selected_player_id, player_details, spd_filtered>>

\* lines 86-158. A callback that raises leaves its Output as it was.
update_dashboard ==
    /\ pending # <<>> /\ Head(pending) = "update_dashboard"
    /\ LET filtered_df == ud_filter(df, team_filter, year_filter, game_type_filter)
       IN  /\ ud_filtered' = filtered_df
           /\ \E out \in render(tabs, filtered_df) :
                /\ ud_raised' = out.raised
                /\ tabs_content' = IF out.raised THEN tabs_content ELSE out.children
                /\ clickData' = IF out.raised THEN clickData ELSE NoClick
                /\ pending' = IF ~out.raised /\ out.children.tab = "tab1"
                              THEN Append(Tail(pending), "store_clicked_player")
                              ELSE Tail(pending)
    /\ UNCHANGED <<df, ui_state, selected_player_id, player_details, spd_filtered>>

\* lines 161-168
store_clicked_player ==
    /\ pending # <<>> /\ Head(pending) = "store_clicked_player"
    /\ selected_player_id' = IF clickData.points # <<>>
                             THEN clickData.points[1].x
                             ELSE NoPlayer
    /\ pending' = Append(Tail(pending), "show_player_details")
    /\ UNCHANGED <<df, ui_state, tabs_content, clickData, player_details,
                   ud_filtered, ud_raised, spd_filtered>>

\* lines 171-205
show_player_details ==
    /\ pending # <<>> /\ Head(pending) = "show_player_details"
    /\ IF selected_player_id = NoPlayer
       THEN /\ player_details' = Blank
            /\ UNCHANGED spd_filtered
       ELSE LET filtered_df == spd_filter(df, team_filter, year_filter, game_type_filter)
            IN  /\ spd_filtered' = filtered_df
                /\ player_details' = lookup(filtered_df, selected_player_id)
    /\ pending' = Tail(pending)
    /\ UNCHANGED <<df, ui_state, tabs_content, clickData, selected_player_id,
                   ud_filtered, ud_raised>>

(***************************************************************************)
(* User events, taken when no callback is outstanding                      *)
(***************************************************************************)
rendered == <<tabs_content, clickData, selected_player_id, player_details,
              ud_filtered, ud_raised, spd_filtered>>

\* variant: the team dropdown declared an Input of update_dashboard
SelectTeams_as_Input ==
    /\ pending = <<>>
    /\ \E v \in TeamSelections : ~v.none /\ v # team_filter /\ team_filter' = v
    /\ pending' = <<"update_dashboard">>
    /\ UNCHANGED <<df, year_filter, game_type_filter, tabs, n_clicks, rendered>>

\* lines 23-29, 90: the team dropdown is a State of both callbacks
SelectTeams ==
    /\ pending = <<>>
    /\ \E v \in TeamSelections : ~v.none /\ v # team_filter /\ team_filter' = v
    /\ UNCHANGED <<df, year_filter, game_type_filter, tabs, n_clicks, rendered, pending>>

\* lines 31-37, 91
SelectYears ==
    /\ pending = <<>>
    /\ \E v \in YearSelections : ~v.none /\ v # year_filter /\ year_filter' = v
    /\ UNCHANGED <<df, team_filter, game_type_filter, tabs, n_clicks, rendered, pending>>

\* lines 39-48, 92
SelectGameType ==
    /\ pending = <<>>
    /\ \E g \in GameTypes : g # game_type_filter /\ game_type_filter' = g
    /\ UNCHANGED <<df, team_filter, year_filter, tabs, n_clicks, rendered, pending>>

\* lines 49, 89: n_clicks is an Input of update_dashboard
Apply ==
    /\ pending = <<>>
    /\ n_clicks < MaxClicks
    /\ n_clicks' = n_clicks + 1
    /\ pending' = <<"update_dashboard">>
    /\ UNCHANGED <<df, team_filter, year_filter, game_type_filter, tabs, rendered>>

\* lines 61-66, 88: the tab value is an Input of update_dashboard
SwitchTab ==
    /\ pending = <<>>
    /\ \E t \in TabValues : t # tabs /\ tabs' = t
    /\ pending' = <<"update_dashboard">>
    /\ UNCHANGED <<df, team_filter, year_filter, game_type_filter, n_clicks, rendered>>

\* lines 116-122, 163: a click on one bar of the rendered top-players graph
ClickBar ==
    /\ pending = <<>>
    /\ tabs_content.tab = "tab1"
    /\ \E i \in 1..Len(tabs_content.rows) :
            clickData' = Click(tabs_content.rows[i].key)
    /\ pending' = <<"store_clicked_player">>
    /\ UNCHANGED <<df, ui_state, tabs_content, selected_player_id, player_details,
                   ud_filtered, ud_raised, spd_filtered>>

(***************************************************************************)
(* Specifications                                                          *)
(***************************************************************************)
\* the components as laid out (lines 15-84), the initial callbacks outstanding
Layout ==
    /\ n_clicks = 0
    /\ tabs_content = NotRendered
    /\ clickData = NoClick
    /\ selected_player_id = NoPlayer
    /\ player_details = Unset
    /\ pending = <<"update_dashboard", "show_player_details">>
    /\ ud_filtered = <<>>
    /\ ud_raised = FALSE
    /\ spd_filtered = <<>>

Init ==
    /\ df \in {fillna(raw) : raw \in UIRawTables}
    /\ team_filter = Sel(TRUE, <<>>)
    /\ year_filter = Sel(TRUE, <<>>)
    /\ game_type_filter = "all"
    /\ tabs = "tab1"
    /\ Layout

Next ==
    \/ update_dashboard
    \/ store_clicked_player
    \/ show_player_details
    \/ SelectTeams
    \/ SelectYears
    \/ SelectGameType
    \/ Apply
    \/ SwitchTab
    \/ ClickBar

\* the dashboard under every sequence of user events
Spec == Init /\ [][Next]_vars

\* the pipeline on every table and every filter selection: the selection and
\* the tab are drawn at the start and the callbacks and bar clicks run on them
InitPipeline ==
    /\ df \in {fillna(raw) : raw \in RawTables}
    /\ team_filter \in PipelineTeamSelections
    /\ year_filter \in PipelineYearSelections
    /\ game_type_filter \in GameTypes
    /\ tabs \in TabValues
    /\ Layout

NextPipeline ==
    \/ update_dashboard
    \/ store_clicked_player
    \/ show_player_details
    \/ ClickBar

SpecPipeline == InitPipeline /\ [][NextPipeline]_vars


(***************************************************************************)
(* What the claims speak of, stated on df and the current selection        *)
(* without the operators above                                             *)
(***************************************************************************)
Chosen(sel) == {sel.list[i] : i \in 1..Len(sel.list)}

TeamOk(r) == team_filter.none \/ Chosen(team_filter) = {} \/ r.Tm \in Chosen(team_filter)
YearOk(r) == year_filter.none \/ Chosen(year_filter) = {} \/ r.Year \in Chosen(year_filter)
GameTypeOk(r) ==
    /\ game_type_filter = "regular" => r.Playoffs = "False"
    /\ game_type_filter = "playoffs" => r.Playoffs = "True"
Satisfies(r) == TeamOk(r) /\ YearOk(r) /\ GameTypeOk(r)

\* the records of df satisfying every active constraint, in df's order
Expected == SelectSeq(df, Satisfies)

\* positions in df of the satisfying records whose column col is k
RowsOf(col, k) == {i \in 1..Len(df) : Satisfies(df[i]) /\ df[i][col] = k}

RECURSIVE IdxSum(_, _)
IdxSum(I, col) ==
    IF I = {} THEN 0
    ELSE LET i == CHOOSE x \in I : TRUE
         IN  df[i][col] + IdxSum(I \ {i}, col)

StatCols == {"PTS", "AST", "TRB", "GmSc"}

\* the fraction m is the mean t.sum / t.n
IsMeanOf(m, t) == m.den > 0 /\ t.n > 0 /\ m.num * t.n = t.sum * m.den

Min2(a, b) == IF a < b THEN a ELSE b
Max(S) == CHOOSE x \in S : \A y \in S : y <= x
Min(S) == CHOOSE x \in S : \A y \in S : x <= y

\* update_dashboard, show_player_details have run to their filtered_df
ud_ran == tabs_content.tab # "none" \/ ud_raised
spd_ran == player_details.kind \in {"notfound", "div"}

\* per key k of column col: the sum of column c and the number of its
\* satisfying records
Totals(col, c) ==
    [k \in {df[i][col] : i \in {j \in 1..Len(df) : Satisfies(df[j])}} |->
        [sum |-> IdxSum(RowsOf(col, k), c), n |-> Cardinality(RowsOf(col, k))]]

\* mean t1.sum / t1.n >= mean t2.sum / t2.n
TotalGe(t1, t2) == t1.sum * t2.n >= t2.sum * t1.n

\* rows holds one row per key of column col, each the means over that key's
\* satisfying records
AggregatesOf(rows, col) ==
    /\ \A i, j \in 1..Len(rows) : rows[i].key = rows[j].key => i = j
    /\ \A c \in StatCols :
          LET t == Totals(col, c)
          IN  \A i \in 1..Len(rows) :
                 /\ rows[i].key \in DOMAIN t
                 /\ IsMeanOf(rows[i][c], t[rows[i].key])

NonIncreasing(rows, col, by) ==
    LET t == Totals(col, by)
    IN  \A i \in 1..Len(rows) - 1 : TotalGe(t[rows[i].key], t[rows[i + 1].key])

Keys(rows) == {rows[i].key : i \in 1..Len(rows)}
PlayersPresent == {Expected[i].bbrID : i \in 1..Len(Expected)}
TeamsPresent == {Expected[i].Tm : i \in 1..Len(Expected)}

\* C1: the filtered sequence of update_dashboard and the one of
\* show_player_details are exactly the records of df that satisfy every
\* active constraint, in df's order, and applying the three constraints in
\* any other order gives the same sequence.
C1_FilterExact ==
    /\ ud_ran =>
         /\ ud_filtered = Expected
         /\ \A i \in 1..Len(ud_filtered) : Satisfies(ud_filtered[i])
         /\ LET t == team_filter
                y == year_filter
                g == game_type_filter
            IN  /\ ud_filtered = by_game_type(by_team(by_year(df, y), t), g)
                /\ ud_filtered = by_team(by_game_type(by_year(df, y), g), t)
                /\ ud_filtered = by_team(by_year(by_game_type(df, g), y), t)
                /\ ud_filtered = by_year(by_team(by_game_type(df, g), t), y)
                /\ ud_filtered = by_year(by_game_type(by_team(df, t), g), y)
    /\ spd_ran => spd_filtered = Expected

C1_Witness ==
    /\ ud_ran /\ spd_ran
    /\ Truthy(team_filter) /\ Truthy(year_filter) /\ game_type_filter = "regular"
    /\ 0 < Len(ud_filtered) /\ Len(ud_filtered) + 1 < Len(df)
    /\ \E i \in 1..Len(df) : TeamOk(df[i]) /\ YearOk(df[i]) /\ ~GameTypeOk(df[i])

\* C2: an unset (None) or empty team selection excludes no record, and
\* likewise an unset or empty year selection; with no team, no year and
\* game type 'all' the filtered sequence is the whole table.
C2_EmptyMeansAll ==
    ud_ran =>
      /\ (team_filter.none \/ team_filter.list = <<>>) =>
            ud_filtered = SelectSeq(df, LAMBDA r : YearOk(r) /\ GameTypeOk(r))
      /\ (year_filter.none \/ year_filter.list = <<>>) =>
            ud_filtered = SelectSeq(df, LAMBDA r : TeamOk(r) /\ GameTypeOk(r))
      /\ ( /\ (team_filter.none \/ team_filter.list = <<>>)
           /\ (year_filter.none \/ year_filter.list = <<>>)
           /\ game_type_filter = "all" ) => ud_filtered = df

C2_Witness ==
    /\ ud_ran
    /\ team_filter = Sel(FALSE, <<>>) /\ year_filter = Sel(FALSE, <<>>)
    /\ game_type_filter = "all"
    /\ Len(df) >= 2 /\ ud_filtered = df

\* C3: the Top-Performers view has min(10, number of distinct players in the
\* filtered set) rows, one per distinct player, each holding that player's
\* means, ordered non-increasing by mean GmSc, and no omitted player has a
\* strictly higher mean GmSc than an included one.
C3_TopPerformers ==
    tabs_content.tab = "tab1" =>
      LET rows == tabs_content.rows
      IN  /\ Len(rows) = Min2(TopN, Cardinality(PlayersPresent))
          /\ Keys(rows) \subseteq PlayersPresent
          /\ AggregatesOf(rows, "bbrID")
          /\ NonIncreasing(rows, "bbrID", "GmSc")
          /\ LET t == Totals("bbrID", "GmSc")
             IN  \A p \in PlayersPresent \ Keys(rows) : \A k \in Keys(rows) :
                    TotalGe(t[k], t[p])

C3_Witness ==
    /\ tabs_content.tab = "tab1"
    /\ Len(tabs_content.rows) = TopN
    /\ Cardinality(PlayersPresent) > TopN
    /\ LET t == Totals("bbrID", "GmSc")
       IN  ~TotalGe(t[tabs_content.rows[TopN].key], t[tabs_content.rows[1].key])

\* first position in the filtered sequence of a record of player k
FirstSeen(k) == Min({i \in 1..Len(Expected) : Expected[i].bbrID = k})

SameMean(k1, k2) ==
    LET t == Totals("bbrID", "GmSc")
    IN  t[k1].sum * t[k2].n = t[k2].sum * t[k1].n

\* C4: in the Top-Performers view players with equal mean GmSc are ordered
\* by first appearance in the filtered sequence, and the same order decides
\* which tied players are kept at the cut at 10.
C4_TiesByEncounter ==
    tabs_content.tab = "tab1" =>
      LET rows == tabs_content.rows
      IN  /\ \A i, j \in 1..Len(rows) :
                (i < j /\ SameMean(rows[i].key, rows[j].key))
                    => FirstSeen(rows[i].key) < FirstSeen(rows[j].key)
          /\ \A p \in PlayersPresent \ Keys(rows) : \A k \in Keys(rows) :
                SameMean(p, k) => FirstSeen(k) < FirstSeen(p)

\* C5: the Team-Overview view has exactly one row for each distinct team of
\* the filtered set and no other row, each holding that team's means, ordered
\* non-increasing by mean PTS.
C5_TeamOverview ==
    tabs_content.tab = "tab4" =>
      LET rows == tabs_content.rows
      IN  /\ Keys(rows) = TeamsPresent
          /\ Len(rows) = Cardinality(TeamsPresent)
          /\ AggregatesOf(rows, "Tm")
          /\ NonIncreasing(rows, "Tm", "PTS")

C5_Witness ==
    /\ tabs_content.tab = "tab4"
    /\ Len(tabs_content.rows) = 2
    /\ LET t == Totals("Tm", "PTS")
       IN  ~TotalGe(t[tabs_content.rows[2].key], t[tabs_content.rows[1].key])
    /\ Len(Expected) >= 2

\* positions in df of the satisfying records of player id
Matches(id) == RowsOf("bbrID", id)

Fields(r) ==
    [Tm |-> r.Tm, Year |-> r.Year, PTS |-> r.PTS, AST |-> r.AST,
     TRB |-> r.TRB, GmSc |-> r.GmSc]

\* the step taken is a run of callback cb
Runs(cb) == pending # <<>> /\ Head(pending) = cb /\ pending' # pending

\* C6: for a non-empty player_id, show_player_details returns NotFound iff no
\* record of the filtered sequence has that bbrID, and otherwise the fields of
\* the last such record in df's order, whatever the Years.
C6_DetailLookup ==
    [][ (Runs("show_player_details") /\ selected_player_id # NoPlayer) =>
          LET m == Matches(selected_player_id)
          IN  /\ player_details'.player_id = selected_player_id
              /\ (player_details'.kind = "notfound") <=> (m = {})
              /\ m # {} => /\ player_details'.kind = "div"
                           /\ player_details'.entry = <<Fields(df[Max(m)])>>
      ]_vars

C6_Witness ==
    /\ player_details.kind = "div"
    /\ \E i, j \in 1..Len(spd_filtered) :
          /\ i < j /\ j = Len(spd_filtered)
          /\ spd_filtered[i].bbrID = player_details.player_id
          /\ spd_filtered[j].bbrID = player_details.player_id
          /\ spd_filtered[i].Year > spd_filtered[j].Year
          /\ player_details.entry[1].Year = spd_filtered[j].Year

\* the views of tab under the current selection, from the satisfying records
ViewsNow(tab) == {out.children : out \in render(tab, Expected)}

\* the detail lookup of player id under the current selection
DetailNow(id) ==
    IF id = NoPlayer THEN Blank
    ELSE IF Matches(id) = {} THEN NotFound(id)
    ELSE Div(id, df[Max(Matches(id))])

C8_DatasetUnchanged == [][df' = df]_vars

C8_Witness ==
    /\ pending = <<>>
    /\ n_clicks > 0
    /\ 0 < Len(ud_filtered) /\ Len(ud_filtered) < Len(df)
    /\ spd_ran /\ Len(spd_filtered) < Len(df)
    /\ \E raw \in UIRawTables : df = fillna(raw) /\ df # raw

\* C9: when the table is empty or the selection matches no record, the
\* filtered sequence is empty and the Top-Performers and Team-Overview views
\* have zero rows, and update_dashboard does not raise.
C9_EmptyIsTotal ==
    (ud_ran /\ \A i \in 1..Len(df) : ~Satisfies(df[i])) =>
        /\ ud_filtered = <<>>
        /\ tabs \in {"tab1", "tab4"} =>
              /\ ~ud_raised
              /\ tabs_content = [tab |-> tabs, rows |-> <<>>]

C9_Witness ==
    /\ Len(df) > 0
    /\ \A i \in 1..Len(df) : ~Satisfies(df[i])
    /\ tabs = "tab4"
    /\ ~ud_raised
    /\ tabs_content = [tab |-> "tab4", rows |-> <<>>]

\* C10: under one selection the filtered sequence of show_player_details is
\* the one of update_dashboard, and for a player key of the Top-Performers
\* view show_player_details does not return NotFound but the fields of a
\* record of the filtered set with that bbrID.
C10_ChartDetailAgree ==
    /\ (ud_ran /\ spd_ran) => spd_filtered = ud_filtered
    /\ ( /\ tabs_content.tab = "tab1"
         /\ spd_ran
         /\ player_details.player_id \in Keys(tabs_content.rows) )
          => /\ player_details.kind = "div"
             /\ \E i \in 1..Len(ud_filtered) :
                   /\ ud_filtered[i].bbrID = player_details.player_id
                   /\ player_details.entry = <<Fields(ud_filtered[i])>>

C10_Witness ==
    /\ tabs_content.tab = "tab1"
    /\ player_details.kind = "div"
    /\ selected_player_id = player_details.player_id
    /\ player_details.player_id \in Keys(tabs_content.rows)
    /\ game_type_filter = "playoffs"
    /\ 0 < Len(ud_filtered) /\ Len(ud_filtered) < Len(df)

=============================================================================
